---- MODULE Spec2Model ----
(***************************************************************************)
(* The tri-state Option[T] of json-go-optional, in its three packages:     *)
(*   optional        src/option.go               struct {value, state}      *)
(*   jsonoptional    src/jsonoptional/optional.go map[bool]T                *)
(*   jsongooptional  src/unnamed/part_000        struct {value, state}      *)
(* together with the part of encoding/json the packages call.              *)
(***************************************************************************)
EXTENDS Integers, Sequences, FiniteSets, TLC

VARIABLES T,      \* the payload type the Option is instantiated with
          pkg,    \* the package whose Option the receiver is
          o,      \* the receiver: an Option[T] of package pkg
          prev,   \* the receiver before its last assignment
          by,     \* the operation that assigned the receiver last
          op,     \* the operation called last
          arg,    \* its argument
          ret,    \* its return value
          err,    \* its error return
          calls   \* how often it called the function it was given

vars == <<T, pkg, o, prev, by, op, arg, ret, err, calls>>

\* Payload integers are 0..MaxInt and WideInt, a number of two digits.
MaxInt == 2
WideInt == 10

Ints == (0..MaxInt) \cup {WideInt}

-----------------------------------------------------------------------------
(* Payload types and values.  T is int or *int; a *int is nil or points to  *)
(* an int.                                                                  *)

PayloadTypes == {"int", "ptr"}

IntVal(n) == [kind |-> "int", n |-> n]
PtrVal(n) == [kind |-> "ptr", n |-> n]
NilPtr    == [kind |-> "nil", n |-> 0]

Values(t) == IF t = "int" THEN {IntVal(n) : n \in Ints}
                          ELSE {NilPtr} \cup {PtrVal(n) : n \in Ints}

\* `var zero T`
Zero(t) == IF t = "int" THEN IntVal(0) ELSE NilPtr

-----------------------------------------------------------------------------
(* Bytes are sequences of one-character strings.                            *)

NullBytes == <<"n", "u", "l", "l">>

Digits == <<"0", "1", "2", "3", "4", "5", "6", "7", "8", "9">>

IsDigit(c) == \E i \in 1..10 : Digits[i] = c

DigitVal(c) == (CHOOSE i \in 1..10 : Digits[i] = c) - 1

RECURSIVE Itoa(_)
Itoa(n) == IF n < 10 THEN <<Digits[n + 1]>>
                     ELSE Itoa(n \div 10) \o <<Digits[(n % 10) + 1]>>

RECURSIVE Atoi(_)
Atoi(s) == IF s = <<>> THEN 0
           ELSE 10 * Atoi(SubSeq(s, 1, Len(s) - 1)) + DigitVal(s[Len(s)])

RECURSIVE TrimLeft(_)
TrimLeft(s) == IF s # <<>> /\ Head(s) = " " THEN TrimLeft(Tail(s)) ELSE s

RECURSIVE TrimRight(_)
TrimRight(s) == IF s # <<>> /\ s[Len(s)] = " "
                THEN TrimRight(SubSeq(s, 1, Len(s) - 1)) ELSE s

\* A JSON number of digits only: no leading zero unless it is "0".
IsNumber(s) == /\ s # <<>>
               /\ \A i \in 1..Len(s) : IsDigit(s[i])
               /\ (Len(s) > 1 => s[1] # "0")

\* json.Marshal(v) for v of type int or *int; it never fails for these.
JsonMarshal(v) == IF v.kind = "nil" THEN NullBytes ELSE Itoa(v.n)

\* json.Marshal(nil)
JsonMarshalNil == NullBytes

\* `var v T; err := json.Unmarshal(data, &v)`: the v and the err after it.
JsonUnmarshal(data) ==
  LET s == TrimRight(TrimLeft(data)) IN
  IF s = <<>> THEN [v |-> Zero(T), err |-> "SyntaxError"]
  ELSE IF s = NullBytes THEN [v |-> Zero(T), err |-> "nil"]
  ELSE IF IsNumber(s)
       THEN [v |-> IF T = "int" THEN IntVal(Atoi(s)) ELSE PtrVal(Atoi(s)),
             err |-> "nil"]
  ELSE IF s = <<"t", "r", "u", "e">>
       THEN [v |-> Zero(T), err |-> "UnmarshalTypeError"]
  ELSE [v |-> Zero(T), err |-> "SyntaxError"]

-----------------------------------------------------------------------------
(* Package optional (src/option.go).                                        *)

NoneState == 0
NullState == 1
SomeState == 2

Opt_Some(v) == [value |-> v, state |-> SomeState]

Opt_None == [value |-> Zero(T), state |-> NoneState]

Opt_JsonNull == [value |-> Zero(T), state |-> NullState]

\* p is "nil" or a pointer <<v>> to the value v
Opt_FromNillable(p) == IF p = <<>> THEN Opt_None ELSE Opt_Some(p[1])

Opt_IsSome(x) == x.state = SomeState

Opt_IsNone(x) == x.state = NullState

Opt_IsJsonNull(x) == x.state = NullState

Opt_MarshalJSON(x) ==
  IF Opt_IsNone(x) THEN [ret |-> <<>>, err |-> "nil"]
  ELSE IF Opt_IsJsonNull(x) THEN [ret |-> NullBytes, err |-> "nil"]
  ELSE [ret |-> JsonMarshal(x.value), err |-> "nil"]

\* UnmarshalJSON were it to set o.state alone and leave o.value as it was
Opt_UnmarshalJSON_KeepsValue(x, data) ==
  IF Len(data) <= 0 THEN [o |-> [x EXCEPT !.state = NoneState], err |-> "nil"]
  ELSE IF data = NullBytes
       THEN [o |-> [x EXCEPT !.state = NullState], err |-> "nil"]
  ELSE LET d == JsonUnmarshal(data) IN
       IF d.err # "nil" THEN [o |-> x, err |-> d.err]
       ELSE [o |-> Opt_Some(d.v), err |-> "nil"]

\* the receiver after the call, and the error returned
Opt_UnmarshalJSON(x, data) ==
  IF Len(data) <= 0 THEN [o |-> Opt_None, err |-> "nil"]
  ELSE IF data = NullBytes THEN [o |-> Opt_JsonNull, err |-> "nil"]
  ELSE LET d == JsonUnmarshal(data) IN
       IF d.err # "nil" THEN [o |-> x, err |-> d.err]
       ELSE [o |-> Opt_Some(d.v), err |-> "nil"]

-----------------------------------------------------------------------------
(* Package jsonoptional (src/jsonoptional/optional.go): Option[T] is a      *)
(* map[bool]T, here a function whose domain is a set of booleans.           *)

EmptyMap == [b \in {} |-> Zero(T)]

\* m[k] of a Go map: the zero value when the key is missing
MapGet(m, k) == IF k \in DOMAIN m THEN m[k] ELSE Zero(T)

JO_Some(v) == [b \in {TRUE} |-> v]

JO_None == EmptyMap

JO_Null == [b \in {FALSE} |-> Zero(T)]

JO_NullIf(v, cond) == IF cond THEN JO_Null ELSE JO_Some(v)

JO_FromNillable(p) == IF p = <<>> THEN JO_None ELSE JO_Some(p[1])

JO_IsSome(x) == IF Cardinality(DOMAIN x) = 0 THEN FALSE ELSE TRUE \in DOMAIN x

JO_IsNone(x) == Cardinality(DOMAIN x) = 0

JO_IsNull(x) == IF Cardinality(DOMAIN x) = 0 THEN FALSE ELSE FALSE \in DOMAIN x

\* MarshalJSON were it to marshal o[false] in place of o[true]
JO_MarshalJSON_ReadsNullKey(x) ==
  IF JO_IsNull(x) THEN [ret |-> NullBytes, err |-> "nil"]
  ELSE [ret |-> JsonMarshal(MapGet(x, FALSE)), err |-> "nil"]

JO_MarshalJSON(x) ==
  IF JO_IsNull(x) THEN [ret |-> NullBytes, err |-> "nil"]
  ELSE [ret |-> JsonMarshal(MapGet(x, TRUE)), err |-> "nil"]

\* UnmarshalJSON were it to assign Some(v) before it looks at the error
JO_UnmarshalJSON_AssignsFirst(x, data) ==
  IF data = NullBytes THEN [o |-> JO_Null, err |-> "nil"]
  ELSE LET d == JsonUnmarshal(data) IN [o |-> JO_Some(d.v), err |-> d.err]

JO_UnmarshalJSON(x, data) ==
  IF data = NullBytes THEN [o |-> JO_Null, err |-> "nil"]
  ELSE LET d == JsonUnmarshal(data) IN
       IF d.err # "nil" THEN [o |-> x, err |-> d.err]
       ELSE [o |-> JO_Some(d.v), err |-> "nil"]

-----------------------------------------------------------------------------
(* Package jsongooptional (src/unnamed/part_000).                           *)

JGO_NoneState == 0
JGO_NullState == 1
JGO_SomeState == 2

JGO_Some(v) == [value |-> v, state |-> JGO_SomeState]

JGO_None == [value |-> Zero(T), state |-> JGO_NoneState]

JGO_Null == [value |-> Zero(T), state |-> JGO_NullState]

JGO_IsSome(x) == x.state = JGO_SomeState

JGO_IsNone(x) == x.state = JGO_NullState

JGO_IsNull(x) == x.state = JGO_NullState

JGO_MarshalJSON(x) ==
  IF x.state = JGO_NullState
  THEN [ret |-> JsonMarshal(Zero(T)), err |-> "nil"]
  ELSE IF x.state = JGO_NoneState THEN [ret |-> JsonMarshalNil, err |-> "nil"]
  ELSE [ret |-> JsonMarshal(x.value), err |-> "nil"]

JGO_UnmarshalJSON(x, data) ==
  IF data = NullBytes THEN [o |-> JGO_Null, err |-> "nil"]
  ELSE LET d == JsonUnmarshal(data) IN
       IF d.err # "nil" THEN [o |-> x, err |-> d.err]
       ELSE [o |-> JGO_Some(d.v), err |-> "nil"]

-----------------------------------------------------------------------------
(* Value extraction and combinators of package optional.  A function       *)
(* argument is modelled by what it returns; "calls" counts its invocations. *)

Opt_Unwrap(x) == IF Opt_IsNone(x) \/ Opt_IsJsonNull(x) THEN Zero(T) ELSE x.value

Opt_Take(x) ==
  IF Opt_IsNone(x) \/ Opt_IsJsonNull(x)
  THEN [ret |-> Zero(T), err |-> "ErrNoneValueTaken"]
  ELSE [ret |-> x.value, err |-> "nil"]

Opt_TakeOr(x, fallbackValue) ==
  IF Opt_IsNone(x) \/ Opt_IsJsonNull(x) THEN fallbackValue ELSE x.value

\* fallbackFunc returns fb
Opt_TakeOrElse(x, fb) ==
  IF Opt_IsNone(x) \/ Opt_IsJsonNull(x) THEN [ret |-> fb, calls |-> 1]
  ELSE [ret |-> x.value, calls |-> 0]

Opt_Or(x, fallbackOptionValue) ==
  IF Opt_IsNone(x) \/ Opt_IsJsonNull(x) THEN fallbackOptionValue ELSE x

\* fallbackOptionFunc returns fb
Opt_OrElse(x, fb) ==
  IF Opt_IsNone(x) \/ Opt_IsJsonNull(x) THEN [ret |-> fb, calls |-> 1]
  ELSE [ret |-> x, calls |-> 0]

\* predicate(v) is v \in accept; || evaluates left to right and stops early
Opt_Filter(x, accept) ==
  IF Opt_IsNone(x) \/ Opt_IsJsonNull(x)
  THEN [ret |-> Opt_None, calls |-> 0, seen |-> <<>>]
  ELSE IF ~(x.value \in accept)
       THEN [ret |-> Opt_None, calls |-> 1, seen |-> <<x.value>>]
       ELSE [ret |-> x, calls |-> 1, seen |-> <<x.value>>]

-----------------------------------------------------------------------------
(* Value extraction and combinators of package jsonoptional.                *)

JO_Unwrap(x) == IF JO_IsNone(x) \/ JO_IsNull(x) THEN Zero(T) ELSE MapGet(x, TRUE)

JO_Take(x) ==
  IF JO_IsNone(x) THEN [ret |-> Zero(T), err |-> "ErrNoneValueTaken"]
  ELSE [ret |-> JO_Unwrap(x), err |-> "nil"]

JO_TakeOr(x, fallbackValue) ==
  IF JO_IsNone(x) THEN fallbackValue ELSE JO_Unwrap(x)

JO_TakeOrElse(x, fb) ==
  IF JO_IsNone(x) THEN [ret |-> fb, calls |-> 1]
  ELSE [ret |-> JO_Unwrap(x), calls |-> 0]

JO_Or(x, fallbackOptionValue) ==
  IF JO_IsNone(x) THEN fallbackOptionValue ELSE x

JO_Filter(x, accept) ==
  IF JO_IsNone(x) THEN [ret |-> JO_None, calls |-> 0, seen |-> <<>>]
  ELSE IF ~(JO_Unwrap(x) \in accept)
       THEN [ret |-> JO_None, calls |-> 1, seen |-> <<JO_Unwrap(x)>>]
       ELSE [ret |-> x, calls |-> 1, seen |-> <<JO_Unwrap(x)>>]

-----------------------------------------------------------------------------
(* Conditional callbacks.  f is modelled by the error e it returns; calls   *)
(* counts its invocations and seen lists the payloads it was called with.   *)

Opt_IfSome(x) ==
  IF Opt_IsNone(x) \/ Opt_IsJsonNull(x) THEN [calls |-> 0, seen |-> <<>>]
  ELSE [calls |-> 1, seen |-> <<x.value>>]

Opt_IfSomeWithError(x, e) ==
  IF Opt_IsNone(x) \/ Opt_IsJsonNull(x)
  THEN [calls |-> 0, seen |-> <<>>, err |-> "nil"]
  ELSE [calls |-> 1, seen |-> <<x.value>>, err |-> e]

Opt_IfNone(x) ==
  IF Opt_IsSome(x) \/ Opt_IsJsonNull(x) THEN [calls |-> 0, seen |-> <<>>]
  ELSE [calls |-> 1, seen |-> <<>>]

Opt_IfNoneWithError(x, e) ==
  IF Opt_IsSome(x) \/ Opt_IsJsonNull(x)
  THEN [calls |-> 0, seen |-> <<>>, err |-> "nil"]
  ELSE [calls |-> 1, seen |-> <<>>, err |-> e]

Opt_IfJsonNull(x) ==
  IF Opt_IsSome(x) \/ Opt_IsNone(x) THEN [calls |-> 0, seen |-> <<>>]
  ELSE [calls |-> 1, seen |-> <<>>]

Opt_IfJsonNullWithError(x, e) ==
  IF Opt_IsSome(x) \/ Opt_IsNone(x)
  THEN [calls |-> 0, seen |-> <<>>, err |-> "nil"]
  ELSE [calls |-> 1, seen |-> <<>>, err |-> e]

JO_IfSome(x) ==
  IF JO_IsNone(x) \/ JO_IsNull(x) THEN [calls |-> 0, seen |-> <<>>]
  ELSE [calls |-> 1, seen |-> <<JO_Unwrap(x)>>]

JO_IfSomeWithError(x, e) ==
  IF JO_IsNone(x) \/ JO_IsNull(x)
  THEN [calls |-> 0, seen |-> <<>>, err |-> "nil"]
  ELSE [calls |-> 1, seen |-> <<JO_Unwrap(x)>>, err |-> e]

JO_IfNone(x) ==
  IF ~JO_IsNone(x) THEN [calls |-> 0, seen |-> <<>>]
  ELSE [calls |-> 1, seen |-> <<>>]

JO_IfNoneWithError(x, e) ==
  IF ~JO_IsNone(x) THEN [calls |-> 0, seen |-> <<>>, err |-> "nil"]
  ELSE [calls |-> 1, seen |-> <<>>, err |-> e]

JO_IfNull(x) ==
  IF ~JO_IsNull(x) THEN [calls |-> 0, seen |-> <<>>]
  ELSE [calls |-> 1, seen |-> <<>>]

JO_IfNullWithError(x, e) ==
  IF ~JO_IsNull(x) THEN [calls |-> 0, seen |-> <<>>, err |-> "nil"]
  ELSE [calls |-> 1, seen |-> <<>>, err |-> e]

-----------------------------------------------------------------------------
(* The operations by package.                                               *)

Packages == {"optional", "jsonoptional", "jsongooptional"}

Some(v) == CASE pkg = "optional" -> Opt_Some(v)
             [] pkg = "jsonoptional" -> JO_Some(v)
             [] OTHER -> JGO_Some(v)

None == CASE pkg = "optional" -> Opt_None
          [] pkg = "jsonoptional" -> JO_None
          [] OTHER -> JGO_None

Null == CASE pkg = "optional" -> Opt_JsonNull
          [] pkg = "jsonoptional" -> JO_Null
          [] OTHER -> JGO_Null

IsSome(x) == CASE pkg = "optional" -> Opt_IsSome(x)
               [] pkg = "jsonoptional" -> JO_IsSome(x)
               [] OTHER -> JGO_IsSome(x)

IsNone(x) == CASE pkg = "optional" -> Opt_IsNone(x)
               [] pkg = "jsonoptional" -> JO_IsNone(x)
               [] OTHER -> JGO_IsNone(x)

IsNull(x) == CASE pkg = "optional" -> Opt_IsJsonNull(x)
               [] pkg = "jsonoptional" -> JO_IsNull(x)
               [] OTHER -> JGO_IsNull(x)

MarshalJSON(x) == CASE pkg = "optional" -> Opt_MarshalJSON(x)
                    [] pkg = "jsonoptional" -> JO_MarshalJSON(x)
                    [] OTHER -> JGO_MarshalJSON(x)

UnmarshalJSON(x, data) == CASE pkg = "optional" -> Opt_UnmarshalJSON(x, data)
                            [] pkg = "jsonoptional" -> JO_UnmarshalJSON(x, data)
                            [] OTHER -> JGO_UnmarshalJSON(x, data)

\* the packages that define the value extraction methods and combinators
WithCombinators == {"optional", "jsonoptional"}

Unwrap(x) == IF pkg = "optional" THEN Opt_Unwrap(x) ELSE JO_Unwrap(x)

Take(x) == IF pkg = "optional" THEN Opt_Take(x) ELSE JO_Take(x)

TakeOr(x, f) == IF pkg = "optional" THEN Opt_TakeOr(x, f) ELSE JO_TakeOr(x, f)

TakeOrElse(x, fb) ==
  IF pkg = "optional" THEN Opt_TakeOrElse(x, fb) ELSE JO_TakeOrElse(x, fb)

Or(x, f) == IF pkg = "optional" THEN Opt_Or(x, f) ELSE JO_Or(x, f)

Filter(x, accept) ==
  IF pkg = "optional" THEN Opt_Filter(x, accept) ELSE JO_Filter(x, accept)

IfSomeWithError(x, e) ==
  IF pkg = "optional" THEN Opt_IfSomeWithError(x, e) ELSE JO_IfSomeWithError(x, e)

IfNoneWithError(x, e) ==
  IF pkg = "optional" THEN Opt_IfNoneWithError(x, e) ELSE JO_IfNoneWithError(x, e)

IfNullWithError(x, e) ==
  IF pkg = "optional" THEN Opt_IfJsonNullWithError(x, e)
                      ELSE JO_IfNullWithError(x, e)

IfSome(x) == IF pkg = "optional" THEN Opt_IfSome(x) ELSE JO_IfSome(x)

IfNone(x) == IF pkg = "optional" THEN Opt_IfNone(x) ELSE JO_IfNone(x)

IfNull(x) == IF pkg = "optional" THEN Opt_IfJsonNull(x) ELSE JO_IfNull(x)

-----------------------------------------------------------------------------
(* json.Marshal(TestRequest{x}), the struct having the one field            *)
(*   Value Option[T] `json:"value,omitempty"`.                              *)
(* omitempty drops a map of length 0 and never drops a struct; bytes a      *)
(* MarshalJSON returns must be one JSON value, and no bytes are not.        *)

IsEmptyValue(x) == pkg = "jsonoptional" /\ Cardinality(DOMAIN x) = 0

MarshalStruct(x) ==
  IF IsEmptyValue(x) THEN [ret |-> <<"{", "}">>, err |-> "nil"]
  ELSE LET m == MarshalJSON(x) IN
       IF m.err # "nil" \/ TrimRight(TrimLeft(m.ret)) = <<>>
       THEN [ret |-> <<>>, err |-> "MarshalerError"]
       ELSE [ret |-> <<"{", "\"value\"", ":">> \o m.ret \o <<"}">>,
             err |-> "nil"]

-----------------------------------------------------------------------------
(* The state a receiver is in, read off its representation: the tag of the  *)
(* struct, or the keys of the map (none: absent, false: null, true: some).  *)

Absent(x) == IF pkg = "jsonoptional" THEN DOMAIN x = {}
                                     ELSE x.state = NoneState

ExplicitNull(x) == IF pkg = "jsonoptional" THEN DOMAIN x = {FALSE}
                                           ELSE x.state = NullState

Present(x) == IF pkg = "jsonoptional" THEN DOMAIN x = {TRUE}
                                      ELSE x.state = SomeState

\* the payload slot of the representation
Payload(x) == IF pkg = "jsonoptional" THEN MapGet(x, TRUE) ELSE x.value

-----------------------------------------------------------------------------
(* Inputs.                                                                  *)

\* the byte strings handed to UnmarshalJSON
DataInputs == {<<>>, NullBytes, <<" ">> \o NullBytes, <<"n", "u", "l">>,
               <<"t", "r", "u", "e">>, <<"x">>, <<"0", "1">>, <<" ", "7">>}
              \cup {Itoa(n) : n \in Ints}

\* a *T: nil, or a pointer to v
Pointers == {<<>>} \cup {<<v>> : v \in Values(T)}

\* the Options a caller can build
Options == {None, Null} \cup {Some(v) : v \in Values(T)}

\* the predicates handed to Filter, each as the set of values it accepts
Predicates == {{}, {Zero(T)}, Values(T) \ {Zero(T)}, Values(T)}

\* the errors a callback handed to a WithError method returns
CallbackErrors == {"nil", "errCallback"}

NoArg == "-"

Returns(name, a, r, e, c) ==
  /\ op' = name
  /\ arg' = a
  /\ ret' = r
  /\ err' = e
  /\ calls' = c
  /\ UNCHANGED <<T, pkg>>

\* `*o = x`, or o := x, in operation name
Assign(name, x) == o' = x /\ prev' = o /\ by' = name

Reads == UNCHANGED <<o, prev, by>>

-----------------------------------------------------------------------------
(* The state machine: a caller holding one Option variable calls the        *)
(* package's functions on it in any order.                                  *)

\* `var o Option[T]`
Init ==
  /\ T \in PayloadTypes
  /\ pkg \in Packages
  /\ o = None
  /\ prev = None
  /\ by = "var"
  /\ op = "var"
  /\ arg = NoArg
  /\ ret = NoArg
  /\ err = "nil"
  /\ calls = 0

CallSome ==
  \E v \in Values(T) : Assign("Some", Some(v)) /\ Returns("Some", v, Some(v), "nil", 0)

CallNone == Assign("None", None) /\ Returns("None", NoArg, None, "nil", 0)

CallNull == Assign("Null", Null) /\ Returns("Null", NoArg, Null, "nil", 0)

CallNullIf ==
  /\ pkg = "jsonoptional"
  /\ \E v \in Values(T), cond \in BOOLEAN :
       /\ Assign("NullIf", JO_NullIf(v, cond))
       /\ Returns("NullIf", <<v, cond>>, JO_NullIf(v, cond), "nil", 0)

CallFromNillable ==
  /\ pkg \in WithCombinators
  /\ \E p \in Pointers :
       LET r == IF pkg = "optional" THEN Opt_FromNillable(p)
                                    ELSE JO_FromNillable(p)
       IN  Assign("FromNillable", r) /\ Returns("FromNillable", p, r, "nil", 0)

\* IsSome(), IsNone() and IsNull()/IsJsonNull() of the receiver
CallIs ==
  /\ Reads
  /\ Returns("Is", NoArg,
             [some |-> IsSome(o), none |-> IsNone(o), null |-> IsNull(o)],
             "nil", 0)

CallUnwrap ==
  /\ pkg \in WithCombinators
  /\ Reads
  /\ Returns("Unwrap", NoArg, Unwrap(o), "nil", 0)

CallTake ==
  /\ pkg \in WithCombinators
  /\ Reads
  /\ Returns("Take", NoArg, Take(o).ret, Take(o).err, 0)

CallTakeOr ==
  /\ pkg \in WithCombinators
  /\ Reads
  /\ \E f \in Values(T) : Returns("TakeOr", f, TakeOr(o, f), "nil", 0)

CallTakeOrElse ==
  /\ pkg \in WithCombinators
  /\ Reads
  /\ \E fb \in Values(T) :
       Returns("TakeOrElse", fb, TakeOrElse(o, fb).ret, "nil",
               TakeOrElse(o, fb).calls)

CallOr ==
  /\ pkg \in WithCombinators
  /\ Reads
  /\ \E f \in Options : Returns("Or", f, Or(o, f), "nil", 0)

CallOrElse ==
  /\ pkg = "optional"
  /\ Reads
  /\ \E fb \in Options :
       Returns("OrElse", fb, Opt_OrElse(o, fb).ret, "nil",
               Opt_OrElse(o, fb).calls)

CallFilter ==
  /\ pkg \in WithCombinators
  /\ Reads
  /\ \E accept \in Predicates :
       Returns("Filter", accept,
               [out |-> Filter(o, accept).ret, seen |-> Filter(o, accept).seen],
               "nil", Filter(o, accept).calls)

CallMarshalJSON ==
  /\ Reads
  /\ Returns("MarshalJSON", NoArg, MarshalJSON(o).ret, MarshalJSON(o).err, 0)

\* json.Marshal(TestRequest{o})
CallMarshalStruct ==
  /\ Reads
  /\ Returns("MarshalStruct", NoArg, MarshalStruct(o).ret,
             MarshalStruct(o).err, 0)

CallUnmarshalJSON ==
  \E data \in DataInputs :
    /\ Assign("UnmarshalJSON", UnmarshalJSON(o, data).o)
    /\ Returns("UnmarshalJSON", data, NoArg, UnmarshalJSON(o, data).err, 0)

\* data, _ := Some(v).MarshalJSON(); err := o.UnmarshalJSON(data)
RoundTrip ==
  \E v \in Values(T) :
    LET m == MarshalJSON(Some(v)) IN
    /\ m.err = "nil"
    /\ Assign("UnmarshalJSON", UnmarshalJSON(o, m.ret).o)
    /\ Returns("RoundTrip", v, m.ret, UnmarshalJSON(o, m.ret).err, 0)

\* o.IfSome(f); o.IfNone(g); o.IfNull(h), or IfJsonNull: the invocations of
\* f, g and h, and what f was called with
CallIf ==
  /\ pkg \in WithCombinators
  /\ Reads
  /\ Returns("If", NoArg,
             [some |-> IfSome(o).calls, none |-> IfNone(o).calls,
              null |-> IfNull(o).calls, seen |-> IfSome(o).seen],
             "nil", IfSome(o).calls + IfNone(o).calls + IfNull(o).calls)

CallIfSomeWithError ==
  /\ pkg \in WithCombinators
  /\ Reads
  /\ \E e \in CallbackErrors :
       Returns("IfSomeWithError", e, IfSomeWithError(o, e).seen,
               IfSomeWithError(o, e).err, IfSomeWithError(o, e).calls)

CallIfNoneWithError ==
  /\ pkg \in WithCombinators
  /\ Reads
  /\ \E e \in CallbackErrors :
       Returns("IfNoneWithError", e, IfNoneWithError(o, e).seen,
               IfNoneWithError(o, e).err, IfNoneWithError(o, e).calls)

CallIfNullWithError ==
  /\ pkg \in WithCombinators
  /\ Reads
  /\ \E e \in CallbackErrors :
       Returns("IfNullWithError", e, IfNullWithError(o, e).seen,
               IfNullWithError(o, e).err, IfNullWithError(o, e).calls)

Next ==
  \/ CallSome
  \/ CallNone
  \/ CallNull
  \/ CallNullIf
  \/ CallFromNillable
  \/ CallIs
  \/ CallUnwrap
  \/ CallTake
  \/ CallTakeOr
  \/ CallTakeOrElse
  \/ CallOr
  \/ CallOrElse
  \/ CallFilter
  \/ CallIf
  \/ CallIfSomeWithError
  \/ CallIfNoneWithError
  \/ CallIfNullWithError
  \/ CallMarshalJSON
  \/ CallMarshalStruct
  \/ CallUnmarshalJSON
  \/ RoundTrip

Spec == Init /\ [][Next]_vars

-----------------------------------------------------------------------------
(* Properties.                                                              *)

BoolCount(b) == IF b THEN 1 ELSE 0

\* C1: every Option built by a constructor or a decode answers exactly one
\* of IsSome, IsNone, IsNull/IsJsonNull with true, in every package; None()
\* is IsNone and not IsNull, Null() is IsNull and not IsNone.
C1_ThreeWayExclusivity ==
  (by # "var") =>
  /\ BoolCount(IsSome(o)) + BoolCount(IsNone(o)) + BoolCount(IsNull(o)) = 1
  /\ by = "None" => IsNone(o) /\ ~IsNull(o)
  /\ by = "Null" => IsNull(o) /\ ~IsNone(o)

\* C2: a struct whose field holds an Absent Option encodes without the
\* field's key, and MarshalJSON of an Absent Option emits no value.
C2_OmissionLaw ==
  Absent(o) =>
    /\ op = "MarshalStruct" => ret = <<"{", "}">> /\ err = "nil"
    /\ op = "MarshalJSON" => ret = <<>> /\ err = "nil"

\* C3: MarshalJSON of an ExplicitNull Option returns the bytes `null` and no
\* error, so the enclosing struct has the field with the value null.
C3_ExplicitNullLaw ==
  ExplicitNull(o) =>
    /\ op = "MarshalJSON" => ret = NullBytes /\ err = "nil"
    /\ op = "MarshalStruct" =>
         ret = <<"{", "\"value\"", ":">> \o NullBytes \o <<"}">> /\ err = "nil"

\* C4: UnmarshalJSON(data) makes the receiver Absent (IsNone) without error
\* for data of length zero, ExplicitNull without error for `null`, and else
\* decodes data as T: Some(v) on success, the decoder's own error on failure.
C4_DecodingTable ==
  (op = "UnmarshalJSON") =>
    IF Len(arg) = 0 THEN Absent(o) /\ IsNone(o) /\ err = "nil"
    ELSE IF arg = NullBytes THEN ExplicitNull(o) /\ err = "nil"
    ELSE IF JsonUnmarshal(arg).err = "nil"
         THEN o = Some(JsonUnmarshal(arg).v) /\ err = "nil"
         ELSE err = JsonUnmarshal(arg).err

\* C5 as stated: decoding the bytes of Some(v).MarshalJSON() gives IsSome
\* with payload v, for every v, a nil pointer included.
C5_RoundTripEveryValue ==
  (op = "RoundTrip") =>
    err = "nil" /\ IsSome(o) /\ Payload(o) = arg /\ ~ExplicitNull(o) /\ ~Absent(o)

\* C5 amended: decoding the bytes of Some(v).MarshalJSON() gives IsSome with
\* payload v when those bytes are not the token `null`, and an ExplicitNull
\* Option holding T's default when they are (v a nil pointer).
C5_RoundTripNonNull ==
  (op = "RoundTrip") =>
    /\ err = "nil"
    /\ ret = JsonMarshal(arg)
    /\ IF ret # NullBytes
       THEN IsSome(o) /\ Present(o) /\ Payload(o) = arg
       ELSE ExplicitNull(o) /\ ~IsSome(o) /\ Payload(o) = Zero(T)

\* a two-digit payload behind a pointer came back into a receiver that was
\* ExplicitNull before
C5_Witness ==
  /\ op = "RoundTrip"
  /\ arg = PtrVal(WideInt)
  /\ ExplicitNull(prev)
  /\ Present(o)
  /\ Payload(o) = PtrVal(WideInt)

\* C6: Take returns (T's default, ErrNoneValueTaken) on an Absent and on an
\* ExplicitNull Option and (v, nil) on Some(v).
C6_TakeErrorLaw ==
  (op = "Take") =>
    IF Present(o) THEN ret = Payload(o) /\ err = "nil"
    ELSE ret = Zero(T) /\ err = "ErrNoneValueTaken"

\* C7: TakeOrElse and OrElse call their fallback function never when the
\* receiver is Present and once when it is Absent or ExplicitNull, and then
\* return its result.
C7_Laziness ==
  (op \in {"TakeOrElse", "OrElse"}) =>
    IF Present(o) THEN calls = 0 ELSE calls = 1 /\ ret = arg

\* C8: TakeOr(fallback) returns v on Some(v) and fallback on an Absent or
\* ExplicitNull Option.
C8_TakeOr ==
  (op = "TakeOr") => ret = IF Present(o) THEN Payload(o) ELSE arg

\* every payload slot of the representation holds T's default
HoldsDefault(x) ==
  IF pkg = "jsonoptional" THEN \A k \in DOMAIN x : x[k] = Zero(T)
                          ELSE x.value = Zero(T)

\* C9: an Option that is not Present holds T's default as payload, whatever
\* the receiver held before, and Unwrap returns T's default for it and v for
\* Some(v), without error.
C9_PayloadDefault ==
  /\ ~Present(o) => HoldsDefault(o)
  /\ op = "Unwrap" =>
       /\ ret = IF Present(o) THEN Payload(o) ELSE Zero(T)
       /\ err = "nil"

\* Unwrap of a receiver that a decode of `null` or of no bytes took from
\* Some(v), v not the default
C9_Witness ==
  /\ op = "Unwrap"
  /\ by = "UnmarshalJSON"
  /\ Present(prev)
  /\ Payload(prev) # Zero(T)
  /\ ~Present(o)
  /\ ret = Zero(T)

\* C10: Filter calls the predicate once on a Present receiver and never on
\* an Absent or ExplicitNull one; it returns the receiver when it is Present
\* and the predicate holds of its payload, and None otherwise.
C10_Filter ==
  (op = "Filter") =>
    /\ calls = IF Present(o) THEN 1 ELSE 0
    /\ ret.out = IF Present(o) /\ Payload(o) \in arg THEN o ELSE None

\* C11: Or(fallback) returns the receiver when it is Present and the
\* fallback Option as it is, whatever its state, when the receiver is Absent
\* or ExplicitNull.
C11_Or ==
  (op = "Or") => ret = IF Present(o) THEN o ELSE arg

\* C12: IfSome calls its function, with the payload, iff the receiver is
\* Present, IfNone iff it is Absent, IfNull/IfJsonNull iff it is ExplicitNull,
\* so the three together make exactly one call; a WithError form returns the
\* callback's error when it calls it and nil when it does not.
C12_CallbackDispatch ==
  /\ op = "If" =>
       /\ ret.some = BoolCount(Present(o))
       /\ ret.none = BoolCount(Absent(o))
       /\ ret.null = BoolCount(ExplicitNull(o))
       /\ ret.seen = IF Present(o) THEN <<Payload(o)>> ELSE <<>>
       /\ calls = 1
  /\ op = "IfSomeWithError" =>
       /\ calls = BoolCount(Present(o))
       /\ ret = IF Present(o) THEN <<Payload(o)>> ELSE <<>>
       /\ err = IF Present(o) THEN arg ELSE "nil"
  /\ op = "IfNoneWithError" =>
       /\ calls = BoolCount(Absent(o))
       /\ err = IF Absent(o) THEN arg ELSE "nil"
  /\ op = "IfNullWithError" =>
       /\ calls = BoolCount(ExplicitNull(o))
       /\ err = IF ExplicitNull(o) THEN arg ELSE "nil"

\* C13: when UnmarshalJSON returns an error the receiver has the state and
\* the payload it had before the call, in every package.
C13_FailedDecodeKeepsReceiver ==
  (op = "UnmarshalJSON" /\ err # "nil") => o = prev

\* the payload decoder rejected the data and the receiver is still the
\* Some(v), v not the default, it was
C13_Witness ==
  /\ op = "UnmarshalJSON"
  /\ err = "UnmarshalTypeError"
  /\ Present(o)
  /\ Payload(o) # Zero(T)
  /\ o = prev

====
